---------------------------- MODULE Spec2Model ----------------------------
(***************************************************************************)
(* arxivrss: deduplicate and clean arXiv RSS feeds.                        *)
(*                                                                         *)
(* Strings are sequences of one-character strings, so that the regular     *)
(* expressions of Article.parse_title are computed character by character. *)
(* Mutable Python objects shared through references (the OrderedDict       *)
(* Feed.articles and the element tree Feed._xml) live in two heaps indexed *)
(* by reference; a Feed object is the record of its references.            *)
(***************************************************************************)
EXTENDS Integers, Sequences, FiniteSets, TLC

(***************************************************************************)
(* Bounds of the model.                                                    *)
(***************************************************************************)
MaxItems == 2
MaxVersionDigits == 2

(***************************************************************************)
(* Characters and literals.                                                *)
(***************************************************************************)
ARXIV == <<"a", "r", "X", "i", "v", ":">>
UPDATED == <<"U", "P", "D", "A", "T", "E", "D">>
Digits == {"0", "1", "2", "3", "4", "5", "6", "7", "8", "9"}

IsSpace(c) == c \in {" ", "\t", "\n", "\r"}

DigitValue(c) ==
    CASE c = "0" -> 0 [] c = "1" -> 1 [] c = "2" -> 2 [] c = "3" -> 3
      [] c = "4" -> 4 [] c = "5" -> 5 [] c = "6" -> 6 [] c = "7" -> 7
      [] c = "8" -> 8 [] c = "9" -> 9

Max(S) == CHOOSE x \in S : \A y \in S : y <= x
Min(S) == CHOOSE x \in S : \A y \in S : x <= y

\* str.strip(): the text without its leading and trailing whitespace
strip(s) ==
    LET ns == {k \in 1..Len(s) : ~IsSpace(s[k])}
    IN  IF ns = {} THEN <<>> ELSE SubSeq(s, Min(ns), Max(ns))

\* int(str) of a string of decimal digits
RECURSIVE int(_)
int(d) ==
    IF Len(d) = 0 THEN 0
    ELSE 10 * int(SubSeq(d, 1, Len(d) - 1)) + DigitValue(d[Len(d)])

\* the end of the longest run of characters of a class starting at `from`
\* (from - 1 when the run is empty); inclass[k] tells whether s[k] is in it
RunEnd(s, from, inclass) ==
    LET stops == {k \in from..Len(s) : ~inclass[k]}
    IN  IF stops = {} THEN Len(s) ELSE Min(stops) - 1

HasAt(s, k, lit) ==
    /\ k >= 1
    /\ k + Len(lit) - 1 <= Len(s)
    /\ SubSeq(s, k, k + Len(lit) - 1) = lit

(***************************************************************************)
(* RE_TITLE = ^\s*(.+)\s*\((.+)\)\s*$ : groups 1 and 2.  The closing       *)
(* parenthesis is the last non-blank character; group 1 is greedy, so the  *)
(* opening one is the last "(" that leaves both groups non-empty.          *)
(***************************************************************************)
RE_TITLE(text) ==
    LET ns    == {k \in 1..Len(text) : ~IsSpace(text[k])}
        q     == IF ns = {} THEN 0 ELSE Max(ns)
        opens == {p \in 2..(q - 2) : text[p] = "("}
        p     == Max(opens)
        lead  == Min(ns) - 1
        from  == IF lead + 1 <= p - 1 THEN lead + 1 ELSE p - 1
    IN  IF q = 0 \/ text[q] # ")" \/ opens = {}
        THEN [match |-> FALSE, g1 |-> <<>>, g2 |-> <<>>]
        ELSE [match |-> TRUE,
              g1 |-> SubSeq(text, from, p - 1),
              g2 |-> SubSeq(text, p + 1, q - 1)]

(***************************************************************************)
(* RE_ID = arXiv:([^v\s]+)(v([0-9]+))? : groups 1 and 3, leftmost match.   *)
(* g3none stands for group 3 being None.                                   *)
(***************************************************************************)
NotVSpace(c) == c # "v" /\ ~IsSpace(c)
IsDigit(c) == c \in Digits

RE_ID(meta) ==
    LET starts == {k \in 1..Len(meta) :
                      /\ HasAt(meta, k, ARXIV)
                      /\ k + 6 <= Len(meta)
                      /\ NotVSpace(meta[k + 6])}
        k  == Min(starts)
        e  == RunEnd(meta, k + 6, [n \in 1..Len(meta) |-> NotVSpace(meta[n])])
        hasv == /\ e + 2 <= Len(meta)
                /\ meta[e + 1] = "v"
                /\ IsDigit(meta[e + 2])
        ve == RunEnd(meta, e + 2, [n \in 1..Len(meta) |-> IsDigit(meta[n])])
    IN  IF starts = {}
        THEN [match |-> FALSE, g1 |-> <<>>, g3none |-> TRUE, g3 |-> <<>>]
        ELSE [match |-> TRUE,
              g1 |-> SubSeq(meta, k + 6, e),
              g3none |-> ~hasv,
              g3 |-> IF hasv THEN SubSeq(meta, e + 2, ve) ELSE <<>>]

(***************************************************************************)
(* RE_SUBJECT = \[([^\[\]]+)\] : group 1, leftmost match.                  *)
(***************************************************************************)
NotBracket(c) == c # "[" /\ c # "]"

RE_SUBJECT(meta) ==
    LET nb == [n \in 1..Len(meta) |-> NotBracket(meta[n])]
        starts == {k \in 1..Len(meta) :
                      /\ meta[k] = "["
                      /\ k + 2 <= Len(meta)
                      /\ NotBracket(meta[k + 1])
                      /\ RunEnd(meta, k + 1, nb) < Len(meta)
                      /\ meta[RunEnd(meta, k + 1, nb) + 1] = "]"}
        k == Min(starts)
    IN  IF starts = {}
        THEN [match |-> FALSE, g1 |-> <<>>]
        ELSE [match |-> TRUE,
              g1 |-> SubSeq(meta, k + 1, RunEnd(meta, k + 1, nb))]

\* RE_UPDATED = UPDATED\s*$ : does it match somewhere in meta
RE_UPDATED(meta) ==
    LET ns == {k \in 1..Len(meta) : ~IsSpace(meta[k])}
    IN  ns # {} /\ HasAt(meta, Max(ns) - 6, UPDATED)

(***************************************************************************)
(* Article.parse_title: the fields of an Article, or the exception raised. *)
(***************************************************************************)
Raised(e) ==
    [err |-> e, title |-> <<>>, id |-> <<>>, version |-> 0,
     subject |-> <<>>, updated |-> FALSE]

parse_title(text) ==
    LET t == RE_TITLE(text)
        a == RE_ID(t.g2)
        s == RE_SUBJECT(t.g2)
    IN  IF text = <<>> THEN Raised("ValueError")
        ELSE IF ~t.match THEN Raised("ValueError")
        ELSE IF ~a.match THEN Raised("ValueError")
        ELSE IF ~s.match THEN Raised("ValueError")
        ELSE IF a.g3none THEN Raised("TypeError")
        ELSE [err |-> "none",
              title |-> strip(t.g1),
              id |-> strip(a.g1),
              version |-> int(a.g3),
              subject |-> strip(s.g1),
              updated |-> RE_UPDATED(t.g2)]

(***************************************************************************)
(* Titles as the feeds carry them: "<title> (arXiv:<id><version> [<subj>]  *)
(* <UPDATED>)", and the closed set of titles the modelled feeds draw from. *)
(***************************************************************************)
SubjA == <<"A">>
SubjB == <<"B">>
SubjX == <<"X">>

MkTitle(title, id, ver, subj, upd) ==
    title \o <<" ", "(">> \o ARXIV \o id \o ver \o <<" ", "[">> \o subj
          \o <<"]">> \o (IF upd THEN <<" ">> \o UPDATED ELSE <<>>) \o <<")">>

T1 == MkTitle(<<"P">>, <<"1">>, <<"v", "1">>, SubjA, FALSE)
T2 == MkTitle(<<"Q">>, <<"2">>, <<"v", "1">>, SubjB, FALSE)
T3 == MkTitle(<<"R">>, <<"3">>, <<"v", "2">>, SubjA, TRUE)
T4 == MkTitle(<<"S">>, <<"4">>, <<"v", "1">>, SubjX, FALSE)
T5 == MkTitle(<<"U">>, <<"5">>, <<>>, SubjA, FALSE)

Catalogue == {T1, T2, T3, T4, T5}

\* the documents a fetch can return: the titles of its items, in document order
Docs == UNION {[1..n -> Catalogue] : n \in 0..MaxItems}

\* the lists of section codes a run can be started with
SectionLists ==
    {<<>>, <<SubjA>>, <<SubjB>>, <<SubjA, SubjB>>, <<SubjB, SubjA>>,
     <<SubjA, SubjA>>}

(***************************************************************************)
(* The inputs of the title parser, assembled from parts.                   *)
(***************************************************************************)
DigitStrings == UNION {[1..n -> {"0", "1", "2"}] : n \in 0..MaxVersionDigits}

PartSets ==
    [title : {<<"P">>, <<" ", "P", " ">>, <<>>},
     open  : {<<"(">>, <<>>},
     tag   : {ARXIV, <<>>},
     id    : {<<"1">>, <<"h", "/", "1">>},
     ver   : {<<>>} \cup {<<"v">> \o d : d \in DigitStrings},
     subj  : {<<" ", "[", "A", "]">>, <<" ", "[", " ", "B", "]">>,
              <<" ", "[", "]">>, <<>>},
     upd   : {<<>>, <<" ">> \o UPDATED, <<" ">> \o UPDATED \o <<" ">>},
     close : {<<")">>, <<")", " ">>, <<>>}]

Assemble(p) ==
    p.title \o p.open \o p.tag \o p.id \o p.ver \o p.subj \o p.upd \o p.close

NoParts ==
    [title |-> <<>>, open |-> <<>>, tag |-> <<>>, id |-> <<>>, ver |-> <<>>,
     subj |-> <<>>, upd |-> <<>>, close |-> <<>>]

VARIABLES
    section_codes,  \* process_arxiv_feeds: the section codes requested
    i,              \* index of the next section code to fetch
    pc,             \* position in process_arxiv_feeds
    err,            \* the exception that ended the run, "none" while running
    feeds,          \* the OrderedDict `feeds`: Feed objects in key order
    articles,       \* heap of Feed.articles OrderedDicts, by reference
    xml,            \* heap of Feed._xml trees (their rss:item children)
    counts,         \* counts[s]: "pre" and "post" per feed
    written,        \* the output files written, by section code
    w,              \* index of the next feed to write
    arg_feeds,      \* the Feed collection handed to the last stage called
    arg_articles,   \* the heap of articles as that stage found it
    parts,          \* title parser: the parts of the input text
    parsed,         \* title parser: what parse_title returned or raised
    ppc             \* title parser: position

vars ==
    <<section_codes, i, pc, err, feeds, articles, xml, counts, written, w,
      arg_feeds, arg_articles, parts, parsed, ppc>>

pipeVars ==
    <<section_codes, i, pc, err, feeds, articles, xml, counts, written, w,
      arg_feeds, arg_articles>>

parseVars == <<parts, parsed, ppc>>

(***************************************************************************)
(* Article and Feed.                                                       *)
(***************************************************************************)
\* Article.__init__: the parsed fields and the reference to the item's node.
\* oid is the identity of the Article object.  ParsedTitle is parse_title
\* on the titles of the catalogue.
ParsedTitle == [t \in Catalogue |-> parse_title(t)]

Article(item) ==
    LET f == ParsedTitle[item.title]
    IN  [oid |-> item.node, node |-> item.node, err |-> f.err,
         title |-> f.title, id |-> f.id, version |-> f.version,
         subject |-> f.subject, updated |-> f.updated]

\* Article defines neither __eq__ nor __hash__: as a dict key or set member
\* an Article is its object identity.
ArticleKey(a) == a.oid

\* copy.deepcopy(xml) and findall("rss:item"): the items of the Feed's own tree
FeedItems(ref, doc) ==
    [k \in 1..Len(doc) |-> [node |-> <<ref, k>>, title |-> doc[k]]]

\* the loop of Feed.__init__: one Article per item, in document order
FeedArticles(items) == [k \in 1..Len(items) |-> Article(items[k])]

\* copy.copy(feed): a new Feed object holding the same references
copy_copy(feed) ==
    [subject |-> feed.subject, articles |-> feed.articles, xml |-> feed.xml]

\* feeds[s] = Feed(...) in the dict comprehension: a repeated key keeps its
\* place and takes the new value
PutFeed(fs, f) ==
    LET at == {k \in 1..Len(fs) : fs[k].subject = f.subject}
    IN  IF at = {} THEN Append(fs, f) ELSE [fs EXCEPT ![Min(at)] = f]

\* del d[article]
DelKey(d, a) == SelectSeq(d, LAMBDA b : ArticleKey(b) # ArticleKey(a))

\* for article in to_remove: del d[article]
RECURSIVE DelAll(_, _)
DelAll(d, to_remove) ==
    IF to_remove = <<>> THEN d
    ELSE DelAll(DelKey(d, Head(to_remove)), Tail(to_remove))

Keys(fs) == [k \in 1..Len(fs) |-> fs[k].subject]
Range(s) == {s[k] : k \in 1..Len(s)}

(***************************************************************************)
(* Stage A: remove_updated_articles.                                       *)
(***************************************************************************)
\* variant: the loop stops at the first updated article it finds
updated_to_remove_first(d) ==
    LET u == SelectSeq(d, LAMBDA a : a.updated)
    IN  IF u = <<>> THEN <<>> ELSE <<Head(u)>>

\* variant: the test of the loop is inverted
updated_to_remove_inverted(d) == SelectSeq(d, LAMBDA a : ~a.updated)

\* the first loop of _remove_updated: the articles to delete
updated_to_remove(d) == SelectSeq(d, LAMBDA a : a.updated)

\* _remove_updated(feed): deletes from the OrderedDict the copied Feed shares
\* with its original; yields the heap after the deletions
_remove_updated(heap, feed) ==
    LET f == copy_copy(feed)
    IN  [heap EXCEPT ![f.articles] = DelAll(@, updated_to_remove(@))]

\* the loop of remove_updated_articles over feeds 1..n
RECURSIVE remove_updated_loop(_, _, _)
remove_updated_loop(heap, fs, n) ==
    IF n = 0 THEN heap
    ELSE _remove_updated(remove_updated_loop(heap, fs, n - 1), fs[n])

remove_updated_articles(heap, fs) == remove_updated_loop(heap, fs, Len(fs))

(***************************************************************************)
(* Stage B: _clean_up_crosses.                                             *)
(***************************************************************************)
\* variant: the test forgets that the main subject must be among the feeds
crosses_to_remove_any_cross(d, subj, subjects) ==
    SelectSeq(d, LAMBDA a : a.subject # subj)

\* variant: the test forgets that the feed's own subject is no cross-post
crosses_to_remove_any_requested(d, subj, subjects) ==
    SelectSeq(d, LAMBDA a : a.subject \in subjects)

\* the inner loop: cross-posts whose main subject is among the feeds
crosses_to_remove(d, subj, subjects) ==
    SelectSeq(d, LAMBDA a : a.subject # subj /\ a.subject \in subjects)

RECURSIVE clean_up_loop(_, _, _)
clean_up_loop(heap, fs, n) ==
    IF n = 0 THEN heap
    ELSE LET h == clean_up_loop(heap, fs, n - 1)
             r == fs[n].articles
         IN  [h EXCEPT ![r] =
                 DelAll(@, crosses_to_remove(@, fs[n].subject, Range(Keys(fs))))]

_clean_up_crosses(heap, fs) == clean_up_loop(heap, fs, Len(fs))

(***************************************************************************)
(* Stage C: _deduplicate_in_order.                                         *)
(***************************************************************************)
\* the inner loop over one feed from position k: the set `queue` and the
\* list to_remove after it
RECURSIVE scan_duplicates(_, _, _, _)
scan_duplicates(d, k, queue, to_remove) ==
    IF k > Len(d) THEN [queue |-> queue, to_remove |-> to_remove]
    ELSE IF ArticleKey(d[k]) \notin queue
         THEN scan_duplicates(d, k + 1, queue \cup {ArticleKey(d[k])}, to_remove)
         ELSE scan_duplicates(d, k + 1, queue, Append(to_remove, d[k]))

\* the outer loop over feeds 1..n: the heap and the set `queue` after it
RECURSIVE deduplicate_loop(_, _, _)
deduplicate_loop(heap, fs, n) ==
    IF n = 0 THEN [heap |-> heap, queue |-> {}]
    ELSE LET before == deduplicate_loop(heap, fs, n - 1)
             r == fs[n].articles
             scan == scan_duplicates(before.heap[r], 1, before.queue, <<>>)
         IN  [heap |-> [before.heap EXCEPT ![r] = DelAll(@, scan.to_remove)],
              queue |-> scan.queue]

_deduplicate_in_order(heap, fs) == deduplicate_loop(heap, fs, Len(fs)).heap

(***************************************************************************)
(* match_xml_to_articles: sync the trees to the articles.                  *)
(***************************************************************************)
\* variant: difference_update(feed.articles) takes the keys, Article objects,
\* of which none is an item of the tree: every item is removed
_match_xml_to_articles_keys(tree, d) ==
    LET to_remove == {it.node : it \in Range(tree)}
    IN  SelectSeq(tree, LAMBDA it : it.node \notin to_remove)

\* _match_xml_to_articles on one feed: the items of the tree after those
\* that are no value of feed.articles were removed
_match_xml_to_articles(tree, d) ==
    LET values == {d[k].node : k \in 1..Len(d)}
        to_remove == {it.node : it \in Range(tree)} \ values
    IN  SelectSeq(tree, LAMBDA it : it.node \notin to_remove)

RECURSIVE match_xml_loop(_, _, _, _)
match_xml_loop(trees, heap, fs, n) ==
    IF n = 0 THEN trees
    ELSE LET t == match_xml_loop(trees, heap, fs, n - 1)
             f == copy_copy(fs[n])
         IN  [t EXCEPT ![f.xml] = _match_xml_to_articles(@, heap[f.articles])]

match_xml_to_articles(trees, heap, fs) == match_xml_loop(trees, heap, fs, Len(fs))

(***************************************************************************)
(* Counts and output.                                                      *)
(***************************************************************************)
RECURSIVE Sum(_)
Sum(s) == IF s = <<>> THEN 0 ELSE Head(s) + Sum(Tail(s))

\* the feeds whose "Final result" line divides by a pre count of 0
ZeroPre(cs) == {k \in 1..Len(cs) : cs[k].pre = 0}

\* variant: the path is built from the subject argument, always "feed"
write_feed_subject(files, feed) == files \cup {<<"f", "e", "e", "d">>}

\* write_feed(xml, "feed", <output_dir>/<feed>.xml): the files after the write
write_feed(files, feed) == files \cup {feed}

(***************************************************************************)
(* process_arxiv_feeds, step by step.                                      *)
(***************************************************************************)
Running == err = "none"

\* fetch_arxiv_xml(s) returns a document and Feed(...) parses every title
CreateFeed ==
    /\ Running /\ pc = "fetch" /\ i <= Len(section_codes)
    /\ \E doc \in Docs :
          LET ref   == Len(xml) + 1
              items == FeedItems(ref, doc)
              arts  == FeedArticles(items)
          IN  /\ \A k \in 1..Len(arts) : arts[k].err = "none"
              /\ xml' = Append(xml, items)
              /\ articles' = Append(articles, arts)
              /\ feeds' = PutFeed(feeds, [subject |-> section_codes[i],
                                          articles |-> ref, xml |-> ref])
    /\ i' = i + 1
    /\ UNCHANGED <<section_codes, pc, err, counts, written, w, arg_feeds,
                   arg_articles, parseVars>>

\* Feed(...) raises on the first item whose title does not parse
CreateFeedRaises ==
    /\ Running /\ pc = "fetch" /\ i <= Len(section_codes)
    /\ \E doc \in Docs :
          LET arts == FeedArticles(FeedItems(Len(xml) + 1, doc))
              bad  == {k \in 1..Len(arts) : arts[k].err # "none"}
          IN  /\ bad # {}
              /\ err' = arts[Min(bad)].err
    /\ UNCHANGED <<section_codes, i, pc, feeds, articles, xml, counts, written,
                   w, arg_feeds, arg_articles, parseVars>>

\* fetch_arxiv_xml(s): requests.get or raise_for_status raises
FetchRaises ==
    /\ Running /\ pc = "fetch" /\ i <= Len(section_codes)
    /\ err' = "HTTPError"
    /\ UNCHANGED <<section_codes, i, pc, feeds, articles, xml, counts, written,
                   w, arg_feeds, arg_articles, parseVars>>

\* counts = {... "pre" ...}; feeds = remove_updated_articles(feeds)
RemoveUpdatedArticles ==
    /\ Running /\ pc = "fetch" /\ i > Len(section_codes)
    /\ counts' = [k \in 1..Len(feeds) |->
                    [pre |-> Len(articles[feeds[k].articles]), post |-> 0]]
    /\ arg_feeds' = feeds
    /\ arg_articles' = articles
    /\ articles' = remove_updated_articles(articles, feeds)
    /\ feeds' = [k \in 1..Len(feeds) |-> copy_copy(feeds[k])]
    /\ pc' = "dedup"
    /\ UNCHANGED <<section_codes, i, err, xml, written, w, parseVars>>

\* deduplicate_feeds with fewer than two feeds: returned as they are
DeduplicateFeedsSkip ==
    /\ Running /\ pc = "dedup" /\ Len(feeds) < 2
    /\ pc' = "sync"
    /\ UNCHANGED <<section_codes, i, err, feeds, articles, xml, counts,
                   written, w, arg_feeds, arg_articles, parseVars>>

\* deduplicate_feeds: feeds = _clean_up_crosses(feeds)
CleanUpCrosses ==
    /\ Running /\ pc = "dedup" /\ Len(feeds) >= 2
    /\ arg_feeds' = feeds
    /\ arg_articles' = articles
    /\ articles' = _clean_up_crosses(articles, feeds)
    /\ pc' = "inorder"
    /\ UNCHANGED <<section_codes, i, err, feeds, xml, counts, written, w,
                   parseVars>>

\* deduplicate_feeds: feeds = _deduplicate_in_order(feeds)
DeduplicateInOrder ==
    /\ Running /\ pc = "inorder"
    /\ arg_feeds' = feeds
    /\ arg_articles' = articles
    /\ articles' = _deduplicate_in_order(articles, feeds)
    /\ pc' = "sync"
    /\ UNCHANGED <<section_codes, i, err, feeds, xml, counts, written, w,
                   parseVars>>

\* feeds = match_xml_to_articles(feeds)
MatchXmlToArticles ==
    /\ Running /\ pc = "sync"
    /\ xml' = match_xml_to_articles(xml, articles, feeds)
    /\ feeds' = [k \in 1..Len(feeds) |-> copy_copy(feeds[k])]
    /\ pc' = "log"
    /\ UNCHANGED <<section_codes, i, err, articles, counts, written, w,
                   arg_feeds, arg_articles, parseVars>>

\* the "Final result" loop when no pre count is 0
LogFinalResult ==
    /\ Running /\ pc = "log" /\ ZeroPre(counts) = {}
    /\ counts' = [k \in 1..Len(feeds) |->
                    [counts[k] EXCEPT !.post = Len(articles[feeds[k].articles])]]
    /\ pc' = "write"
    /\ w' = 1
    /\ UNCHANGED <<section_codes, i, err, feeds, articles, xml, written,
                   arg_feeds, arg_articles, parseVars>>

\* the "Final result" loop: post / pre raises at the first pre count of 0
LogFinalResultRaises ==
    /\ Running /\ pc = "log" /\ ZeroPre(counts) # {}
    /\ counts' = [k \in 1..Len(feeds) |->
                    IF k <= Min(ZeroPre(counts))
                    THEN [counts[k] EXCEPT
                            !.post = Len(articles[feeds[k].articles])]
                    ELSE counts[k]]
    /\ err' = "ZeroDivisionError"
    /\ UNCHANGED <<section_codes, i, pc, feeds, articles, xml, written, w,
                   arg_feeds, arg_articles, parseVars>>

\* the write loop: write_feed succeeds on the next feed
WriteFeed ==
    /\ Running /\ pc = "write" /\ w <= Len(feeds)
    /\ written' = write_feed(written, Keys(feeds)[w])
    /\ w' = w + 1
    /\ UNCHANGED <<section_codes, i, pc, err, feeds, articles, xml, counts,
                   arg_feeds, arg_articles, parseVars>>

\* the write loop: open() or write() raises on the next feed
WriteFeedRaises ==
    /\ Running /\ pc = "write" /\ w <= Len(feeds)
    /\ err' = "OSError"
    /\ UNCHANGED <<section_codes, i, pc, feeds, articles, xml, counts, written,
                   w, arg_feeds, arg_articles, parseVars>>

\* the "TOTAL Final result" line after the last write
LogTotal ==
    /\ Running /\ pc = "write" /\ w > Len(feeds)
    /\ Sum([k \in 1..Len(counts) |-> counts[k].pre]) # 0
    /\ pc' = "done"
    /\ UNCHANGED <<section_codes, i, err, feeds, articles, xml, counts,
                   written, w, arg_feeds, arg_articles, parseVars>>

\* the "TOTAL Final result" line: num_post / num_pre raises when num_pre is 0
LogTotalRaises ==
    /\ Running /\ pc = "write" /\ w > Len(feeds)
    /\ Sum([k \in 1..Len(counts) |-> counts[k].pre]) = 0
    /\ err' = "ZeroDivisionError"
    /\ UNCHANGED <<section_codes, i, pc, feeds, articles, xml, counts, written, w,
                   arg_feeds, arg_articles, parseVars>>

Init ==
    /\ section_codes \in SectionLists
    /\ i = 1
    /\ pc = "fetch"
    /\ err = "none"
    /\ feeds = <<>>
    /\ articles = <<>>
    /\ xml = <<>>
    /\ counts = <<>>
    /\ written = {}
    /\ w = 1
    /\ arg_feeds = <<>>
    /\ arg_articles = <<>>
    /\ parts = NoParts
    /\ parsed = Raised("none")
    /\ ppc = "off"

Next ==
    \/ CreateFeed
    \/ CreateFeedRaises
    \/ FetchRaises
    \/ RemoveUpdatedArticles
    \/ DeduplicateFeedsSkip
    \/ CleanUpCrosses
    \/ DeduplicateInOrder
    \/ MatchXmlToArticles
    \/ LogFinalResult
    \/ LogFinalResultRaises
    \/ WriteFeed
    \/ WriteFeedRaises
    \/ LogTotal
    \/ LogTotalRaises

Spec == Init /\ [][Next]_vars

(***************************************************************************)
(* The title parser on its own: parse_title applied to an assembled text.  *)
(***************************************************************************)
ParseTitle ==
    /\ ppc = "ready"
    /\ parsed' = parse_title(Assemble(parts))
    /\ ppc' = "parsed"
    /\ UNCHANGED <<parts, pipeVars>>

InitParse ==
    /\ parts \in PartSets
    /\ parsed = Raised("none")
    /\ ppc = "ready"
    /\ section_codes = <<>>
    /\ i = 1
    /\ pc = "off"
    /\ err = "none"
    /\ feeds = <<>>
    /\ articles = <<>>
    /\ xml = <<>>
    /\ counts = <<>>
    /\ written = {}
    /\ w = 1
    /\ arg_feeds = <<>>
    /\ arg_articles = <<>>

NextParse == ParseTitle

SpecParse == InitParse /\ [][NextParse]_vars

(***************************************************************************)
(* Properties.                                                             *)
(***************************************************************************)
Requested == Range(section_codes)

\* the entries of feed k now, and as the last stage called found them
Now(k) == articles[feeds[k].articles]
Before(k) == arg_articles[arg_feeds[k].articles]

Oids(d) == {d[j].oid : j \in 1..Len(d)}
IdsOf(d) == [j \in 1..Len(d) |-> d[j].id]
Nodes(d) == [j \in 1..Len(d) |-> d[j].node]

AfterStageA == pc = "dedup"
AfterStageB == pc = "inorder"
AfterStageC == pc = "sync" /\ Len(feeds) >= 2
Terminated == err # "none" \/ pc = "done"

\* the entries of feeds 1..n in the order Stage C walks them, each with the
\* index of its feed
RECURSIVE Walk(_)
Walk(n) ==
    IF n = 0 THEN <<>>
    ELSE Walk(n - 1) \o [j \in 1..Len(Before(n)) |->
                            [feed |-> n, entry |-> Before(n)[j]]]

\* C1: after Stage C on two or more feeds, an entry of the walk (feeds in
\* the requested order, entries in document order) has been dropped if and
\* only if an earlier entry of the walk has the same identifier.
C1_DropsLaterDuplicates ==
    AfterStageC =>
        LET walk == Walk(Len(arg_feeds))
        IN  \A j \in 1..Len(walk) :
               (walk[j].entry.oid \notin Oids(Now(walk[j].feed)))
                  <=> (\E h \in 1..(j - 1) : walk[h].entry.id = walk[j].entry.id)

\* C2: after Stage B, the feed of subject s holds exactly its input entries
\* whose subject is s or is not a requested subject, in their original order.
C2_CrossesRemoved ==
    AfterStageB =>
        \A k \in 1..Len(feeds) :
           Now(k) = SelectSeq(Before(k),
                       LAMBDA e : \/ e.subject = feeds[k].subject
                                  \/ e.subject \notin Requested)

\* Stage B has removed a cross-post from one feed and kept an entry of a
\* subject that was not requested
C2_Witness ==
    /\ AfterStageB
    /\ \E k \in 1..Len(feeds) : Len(Now(k)) < Len(Before(k))
    /\ \E k \in 1..Len(feeds) : \E j \in 1..Len(Now(k)) :
          Now(k)[j].subject \notin Requested

\* C3: after one pass of Stage A no feed holds an updated entry, every entry
\* that is not updated is kept in its original order, and a second pass
\* changes nothing.
C3_RemoveUpdatedIdempotent ==
    AfterStageA =>
        /\ \A k \in 1..Len(feeds) :
              /\ \A j \in 1..Len(Now(k)) : ~Now(k)[j].updated
              /\ Now(k) = SelectSeq(Before(k), LAMBDA e : ~e.updated)
        /\ remove_updated_articles(articles, feeds) = articles

\* the first pass removed an updated entry of a feed and kept another entry
C3_Witness ==
    /\ AfterStageA
    /\ \E k \in 1..Len(feeds) :
          /\ Len(Now(k)) < Len(Before(k))
          /\ Len(Now(k)) > 0

\* C4: the node of every entry of a feed is in the feed's tree, and once
\* match_xml_to_articles has run the items of the tree are exactly the nodes
\* of the entries, one per entry, in order.
C4_SyncInvariant ==
    \A k \in 1..Len(feeds) :
       LET tree == xml[feeds[k].xml]
       IN  /\ Range(Nodes(Now(k))) \subseteq Range(Nodes(tree))
           /\ pc \in {"log", "write", "done"} =>
                 /\ Nodes(tree) = Nodes(Now(k))
                 /\ Len(tree) = Len(Now(k))

\* the sync removed items from a tree and left others
C4_Witness ==
    /\ pc = "log"
    /\ \E k \in 1..Len(feeds) :
          /\ Len(xml[feeds[k].xml]) < counts[k].pre
          /\ Len(xml[feeds[k].xml]) > 0

WellFormed(p) ==
    /\ p.title # <<>>
    /\ p.open = <<"(">>
    /\ p.tag = ARXIV
    /\ p.ver # <<"v">>
    /\ p.subj \in {<<" ", "[", "A", "]">>, <<" ", "[", " ", "B", "]">>}
    /\ p.close # <<>>

\* C5: a title whose metadata holds arXiv:<id> parses to an Entry with that
\* identifier, with version 1 when no v<n> follows the identifier and with
\* version n when it does.
C5_VersionDefault ==
    (ppc = "parsed" /\ WellFormed(parts)) =>
        /\ parsed.err = "none"
        /\ parsed.id = parts.id
        /\ parsed.version = (IF parts.ver = <<>> THEN 1 ELSE int(Tail(parts.ver)))

\* C6 as stated: a run that has ended has written the output file of every
\* requested subject or of none.
C6_AllOrNothing ==
    Terminated => (written = {} \/ written = Requested)

\* C6 as amended: the files written are those of the feeds before the write
\* position; a run that ended before the write loop wrote none, a write
\* error leaves the file it failed on unwritten, and only a run that ended
\* without error has written the file of every requested subject.
C6_WrittenPrefix ==
    /\ written = {Keys(feeds)[k] : k \in 1..(w - 1)}
    /\ pc \in {"fetch", "dedup", "inorder", "sync", "log"} => written = {}
    /\ err = "OSError" => (w <= Len(feeds) /\ Keys(feeds)[w] \notin written)
    /\ pc = "done" => (err = "none" /\ written = Requested)

\* a write error on the second file: the first stays written
C6_Witness ==
    /\ err = "OSError"
    /\ written # {}
    /\ written # Requested

Titles(tree) == [j \in 1..Len(tree) |-> tree[j].title]

Scenario ==
    /\ section_codes = <<SubjA, SubjB>>
    /\ Len(xml) = 2
    /\ Titles(xml[1]) = <<T1, T2>>
    /\ Titles(xml[2]) = <<T2, T3>>

\* C7: subjects [A, B], feed A = [id1 (A), id2 (B)], feed B = [id2 (B),
\* id3 (A, UPDATED)]: Stage A leaves A = [id1, id2] and B = [id2], Stage B
\* leaves A = [id1] and B = [id2], and Stage C leaves them so.
C7_EndToEnd ==
    Scenario =>
        /\ AfterStageA =>
              /\ IdsOf(Now(1)) = <<<<"1">>, <<"2">>>>
              /\ IdsOf(Now(2)) = <<<<"2">>>>
        /\ (AfterStageB \/ AfterStageC) =>
              /\ IdsOf(Now(1)) = <<<<"1">>>>
              /\ IdsOf(Now(2)) = <<<<"2">>>>

C7_Witness == Scenario /\ AfterStageC

\* C8: when a stage has returned, every Feed it was given still has the
\* entries it had when the stage was called.
C8_StageIsolation ==
    (AfterStageA \/ AfterStageB \/ AfterStageC) =>
        \A k \in 1..Len(arg_feeds) :
           articles[arg_feeds[k].articles] = Before(k)

AllIds(heap, fs) ==
    UNION {Range(IdsOf(heap[fs[k].articles])) : k \in 1..Len(fs)}

\* the entries Stage B dropped from feed k
DroppedByB(k) ==
    SelectSeq(Before(k), LAMBDA e : e.oid \notin Oids(Now(k)))

\* C9 as stated: for every entry Stage B dropped, the feed of the entry's
\* subject held an entry with the same identifier when Stage B was called,
\* and every identifier present in some feed before is present in some
\* feed after.
C9_NoPaperLost ==
    AfterStageB =>
        /\ \A k \in 1..Len(feeds) : \A e \in Range(DroppedByB(k)) :
              \E h \in 1..Len(feeds) :
                 /\ feeds[h].subject = e.subject
                 /\ e.id \in Range(IdsOf(Before(h)))
        /\ AllIds(arg_articles, arg_feeds) \subseteq AllIds(articles, feeds)

\* C9 as amended: every entry Stage B dropped has a requested subject other
\* than its feed's, and every identifier carried before Stage B by an entry
\* whose subject is its feed's or is not requested is still in that feed
\* after it.
C9_PrimaryAndUntrackedKept ==
    AfterStageB =>
        \A k \in 1..Len(feeds) :
           /\ \A e \in Range(DroppedByB(k)) :
                 e.subject # feeds[k].subject /\ e.subject \in Requested
           /\ \A e \in Range(Before(k)) :
                 (e.subject = feeds[k].subject \/ e.subject \notin Requested)
                    => e.id \in Range(IdsOf(Now(k)))

\* Stage B dropped a cross-post whose identifier no feed holds any more,
\* next to entries it kept
C9_Witness ==
    /\ AfterStageB
    /\ \E k \in 1..Len(feeds) :
          /\ \E e \in Range(DroppedByB(k)) : e.id \notin AllIds(articles, feeds)
          /\ Len(Now(k)) > 0

\* C10: once every feed is fetched and parsed, the run raises nothing before
\* the file writes and nothing but a write error after them.
C10_RunsToCompletion ==
    /\ pc \in {"dedup", "inorder", "sync", "log"} => err = "none"
    /\ pc = "write" => err \in {"none", "OSError"}

=============================================================================
